---------------------------- MODULE Spec2Model ----------------------------
(***************************************************************************)
(* A model of minirc.go, a minimal IRC client bridged to a polling web     *)
(* interface.  Strings are sequences of one-character strings, so that the *)
(* positional and substring parsing of the read loop is modelled as the    *)
(* code performs it.                                                       *)
(***************************************************************************)
EXTENDS Naturals, Integers, Sequences, FiniteSets, TLC

VARIABLES
    cfgChannel,     \* irc.config.Channel
    envSet,         \* IRC_NICKNAME, IRC_USERNAME and IRC_REALNAME are all set
    messages,       \* irc.messages
    users,          \* irc.users: [nil |-> BOOLEAN, m |-> nickname -> User]
    conn,           \* irc.conn: "nil" or "open"
    dialConn,       \* what connectToIRC returns: "nil" or "open"
    sent,           \* the frames written to the transport, in order
    mainPc,         \* the position of main
    loopOn,         \* the read-loop goroutine has been started
    status,         \* the process: "running", "panic" or "fatal"
    message,        \* the line the read loop read last
    nRead,          \* the number of lines the read loop has read
    events,         \* the dispatches the read loop made for the last line
    now,            \* the clock
    lastWho,        \* lastWho
    resp,           \* what the last facade request returned
    hist,           \* the store operations called so far (history)
    pc,             \* per thread: its position inside a store operation
    op,             \* per thread: the operation it runs and its arguments
    messagesMutex,  \* irc.messagesMutex: 0 when free, else the holding thread
    usersMutex      \* irc.usersMutex: 0 when free, else the holding thread

vars == <<cfgChannel, envSet, messages, users, conn, dialConn, sent, mainPc, loopOn,
          status, message, nRead, events, now, lastWho, resp, hist, pc, op,
          messagesMutex, usersMutex>>

-----------------------------------------------------------------------------
(* Strings *)

LF == "\n"
CR == "\r"

\* The characters of the model in byte order (sort.Strings compares bytes).
ByteOrder ==
    <<"\t", LF, CR, " ", "!", "#", "*", "+", ",", "/", "0", "1", "2", "3", "5",
      ":", "<", "=", ">", "@",
      "A", "C", "E", "G", "H", "I", "J", "K", "M", "N", "O", "P", "R", "S",
      "T", "U", "V", "W",
      "a", "b", "e", "h", "i", "l", "m", "n", "o", "r", "s", "u", "x", "y">>

Byte(c) == CHOOSE i \in 1..Len(ByteOrder) : ByteOrder[i] = c

RECURSIVE StrLess(_, _)
StrLess(a, b) ==
    IF b = <<>> THEN FALSE
    ELSE IF a = <<>> THEN TRUE
    ELSE IF Byte(Head(a)) # Byte(Head(b)) THEN Byte(Head(a)) < Byte(Head(b))
    ELSE StrLess(Tail(a), Tail(b))

StrLeq(a, b) == a = b \/ StrLess(a, b)

RECURSIVE IndexFrom(_, _, _)
IndexFrom(s, sub, i) ==
    IF i + Len(sub) - 1 > Len(s) THEN 0
    ELSE IF SubSeq(s, i, i + Len(sub) - 1) = sub THEN i
    ELSE IndexFrom(s, sub, i + 1)

\* strings.Index + 1: the first position of sub in s, 0 when there is none.
Index(s, sub) == IndexFrom(s, sub, 1)

Contains(s, sub) == Index(s, sub) # 0

\* strings.SplitN(s, sep, n) for n # 0; n < 0 splits at every separator.
RECURSIVE SplitN(_, _, _)
SplitN(s, sep, n) ==
    LET i == Index(s, sep)
    IN  IF n = 1 \/ i = 0 THEN <<s>>
        ELSE <<SubSeq(s, 1, i - 1)>>
                \o SplitN(SubSeq(s, i + Len(sep), Len(s)), sep, n - 1)

Split(s, sep) == SplitN(s, sep, -1)

RECURSIVE TrimLeft(_, _)
TrimLeft(s, cutset) ==
    IF s # <<>> /\ Head(s) \in cutset THEN TrimLeft(Tail(s), cutset) ELSE s

RECURSIVE TrimRight(_, _)
TrimRight(s, cutset) ==
    IF s # <<>> /\ s[Len(s)] \in cutset
    THEN TrimRight(SubSeq(s, 1, Len(s) - 1), cutset)
    ELSE s

Trim(s, cutset) == TrimRight(TrimLeft(s, cutset), cutset)

WhiteSpace == {"\t", LF, CR, " "}

TrimSpace(s) == Trim(s, WhiteSpace)

\* strings.Join
RECURSIVE StringsJoin(_, _)
StringsJoin(list, sep) ==
    IF list = <<>> THEN <<>>
    ELSE IF Len(list) = 1 THEN list[1]
    ELSE list[1] \o sep \o StringsJoin(Tail(list), sep)


-----------------------------------------------------------------------------
(* Literals of the program *)

CRLF == <<CR, LF>>
SP == <<" ">>
COLON == <<":">>
BANG == <<"!">>
COMMA == <<",">>
BR == <<"<", "b", "r", "/", ">">>
ColonSpace == <<":", " ">>
sJOIN == <<"J", "O", "I", "N">>
sPART == <<"P", "A", "R", "T">>
sPING == <<"P", "I", "N", "G">>
sPONG == <<"P", "O", "N", "G">>
sWHO == <<"W", "H", "O">>
sUSER == <<"U", "S", "E", "R">>
sNICK == <<"N", "I", "C", "K">>
sPRIVMSG == <<"P", "R", "I", "V", "M", "S", "G">>
sRealname == <<" ", "0", " ", "*", " ", ":", "r", "e", "a", "l", "n", "a", "m", "e">>
Code001 == <<"0", "0", "1">>
Code353 == <<"3", "5", "3">>
Code352 == <<"3", "5", "2">>

\* The identity the environment gives: IRC_NICKNAME and IRC_USERNAME.
envVarNickName == <<"m", "e">>
envVarUserName == <<"u">>

\* The channels a configuration or a server line may name.
Chans == {<<"#", "x">>, <<"#", "y">>}

-----------------------------------------------------------------------------
(* The Roster Store and the Message Log: what each method does to its field *)

NickCutset == {":", "@", "+", " ", LF}

EmptyMap == [k \in {} |-> 0]

NilUsers == [nil |-> TRUE, m |-> EmptyMap]

MadeUsers == [nil |-> FALSE, m |-> EmptyMap]

User(nickname, hostname, server, channel) ==
    [Nickname |-> nickname, Hostname |-> hostname, Server |-> server,
     Channel |-> channel]

\* An assignment into a nil map panics.
AddUserPanics(u) == u.nil

\* AddUserForChannel keeping the stored hostname and server where the new
\* record has none.
AddUserForChannelMerging(u, user) ==
    LET t == [user EXCEPT !.Nickname = Trim(@, NickCutset),
                          !.Hostname = Trim(@, NickCutset)]
        old == IF t.Nickname \in DOMAIN u.m THEN u.m[t.Nickname] ELSE t
        merged == [t EXCEPT
                     !.Hostname = IF @ = <<>> THEN old.Hostname ELSE @,
                     !.Server = IF @ = <<>> THEN old.Server ELSE @]
    IN  [u EXCEPT !.m = (t.Nickname :> merged) @@ u.m]

\* AddUserForChannel leaving alone a nickname stored for another channel.
AddUserForChannelPerChannel(u, user) ==
    LET t == [user EXCEPT !.Nickname = Trim(@, NickCutset),
                          !.Hostname = Trim(@, NickCutset)]
    IN  IF t.Nickname \in DOMAIN u.m /\ u.m[t.Nickname].Channel # t.Channel
        THEN u
        ELSE [u EXCEPT !.m = (t.Nickname :> t) @@ u.m]

AddUserForChannel(u, user) ==
    LET t == [user EXCEPT !.Nickname = Trim(@, NickCutset),
                          !.Hostname = Trim(@, NickCutset)]
    IN  [u EXCEPT !.m = (t.Nickname :> t) @@ u.m]

RemoveUser(u, nickname) ==
    LET key == Trim(nickname, NickCutset)
    IN  [u EXCEPT !.m = [k \in (DOMAIN u.m) \ {key} |-> u.m[k]]]

ResetUsersForChannel(u) == NilUsers

\* sort.Strings over the nicknames collected from the map.
RECURSIVE SortNicks(_, _)
SortNicks(keys, m) ==
    IF keys = {} THEN <<>>
    ELSE LET k == CHOOSE k \in keys :
                    \A j \in keys : StrLeq(m[k].Nickname, m[j].Nickname)
         IN  <<m[k].Nickname>> \o SortNicks(keys \ {k}, m)

\* GetUsersForChannel without its test of u.Channel.
GetUsersListAnyChannel(u, channel) == SortNicks(DOMAIN u.m, u.m)

\* The slice GetUsersForChannel holds after its sort.
GetUsersList(u, channel) ==
    SortNicks({k \in DOMAIN u.m : u.m[k].Channel = channel}, u.m)

GetUsersForChannel(u, channel) == StringsJoin(GetUsersList(u, channel), COMMA)

IRCMessage(channel, userName, msg) ==
    [channel |-> channel, userName |-> userName, message |-> msg]

\* AddIncomingMessage putting the line at the head of the slice.
AddIncomingMessageAtHead(msgs, chatRoom, userName, msg) ==
    <<IRCMessage(chatRoom, userName, msg)>> \o msgs

AddIncomingMessage(msgs, chatRoom, userName, msg) ==
    Append(msgs, IRCMessage(chatRoom, userName, msg))

\* fmt.Sprintf("%s: %s", m.userName, m.message)
FormatMessage(m) == m.userName \o ColonSpace \o m.message

RECURSIVE MessageLines(_, _)
MessageLines(msgs, channel) ==
    IF msgs = <<>> THEN <<>>
    ELSE (IF Head(msgs).channel = channel
          THEN <<FormatMessage(Head(msgs))>> ELSE <<>>)
            \o MessageLines(Tail(msgs), channel)

GetMessagesForChatRoom(msgs, channel) == StringsJoin(MessageLines(msgs, channel), BR)

-----------------------------------------------------------------------------
(* The frames written to the transport *)

UserFrame == sUSER \o SP \o envVarUserName \o sRealname \o CRLF
NickFrame == sNICK \o SP \o envVarNickName \o CRLF
JoinFrame(channel) == sJOIN \o SP \o channel \o CRLF
\* "PONG %s\r\n" with message[5:]
PongFrame(msg) == sPONG \o SP \o SubSeq(msg, 6, Len(msg)) \o CRLF
WhoFrame(channel) == sWHO \o SP \o channel \o CRLF
PrivmsgFrame(channel, text) ==
    sPRIVMSG \o SP \o channel \o SP \o COLON \o text \o CRLF

-----------------------------------------------------------------------------
(* One iteration of the read loop, as a function of the state it works on. *)
(* S is [messages, users, sent, lastWho, status, events]; a step taken     *)
(* after a panic changes nothing.                                          *)

WhoInterval == 30

Panic(S) == [S EXCEPT !.status = "panic"]

Dispatch(S, e) == [S EXCEPT !.events = Append(@, e)]

\* fmt.Fprintf on the connection c: a nil net.Conn panics.
WriteConn(S, c, frame) ==
    IF c = "nil" THEN Panic(S) ELSE [S EXCEPT !.sent = Append(@, frame)]

\* The raw line logged without its line terminator.
LogRawTrimmed(S, msg) ==
    [S EXCEPT !.messages = AddIncomingMessage(@, <<>>, <<>>, TrimSpace(msg))]

\* irc.AddIncomingMessage("", "", message)
LogRaw(S, msg) ==
    [S EXCEPT !.messages = AddIncomingMessage(@, <<>>, <<>>, msg)]

\* spaceDelimited[1] of strings.SplitN(message, " ", 3)
MessageCodePanics(msg) == Len(SplitN(msg, SP, 3)) < 2

MessageCode(msg) == SplitN(msg, SP, 3)[2]

Join(S, c, channel) == WriteConn(Dispatch(S, "join"), c, JoinFrame(channel))

Pong(S, c, msg) ==
    IF Len(msg) < 5 THEN Panic(Dispatch(S, "pong"))
    ELSE WriteConn(Dispatch(S, "pong"), c, PongFrame(msg))

StepWelcome(S, c, channel, msg) ==
    IF S.status # "running" THEN S
    ELSE IF MessageCodePanics(msg) THEN Panic(S)
    ELSE IF MessageCode(msg) = Code001 THEN Join(S, c, channel)
    ELSE S

\* message[0:4] == "PING"
StepPing(S, c, msg) ==
    IF S.status # "running" THEN S
    ELSE IF Len(msg) < 4 THEN Panic(S)
    ELSE IF SubSeq(msg, 1, 4) = sPING THEN Pong(S, c, msg)
    ELSE S

StepPrivmsg(S, channel, msg) ==
    IF S.status # "running" THEN S
    ELSE IF Contains(msg, sPRIVMSG \o SP \o channel)
    THEN LET parts == SplitN(msg, COLON, 3)
         IN  IF Len(parts) = 3
             THEN [Dispatch(S, "message") EXCEPT
                      !.messages = AddIncomingMessage(@, channel,
                                        Split(parts[2], BANG)[1],
                                        TrimSpace(parts[3]))]
             ELSE S
    ELSE S

AddUser(S, user) ==
    IF S.status # "running" THEN S
    ELSE IF AddUserPanics(S.users) THEN Panic(S)
    ELSE [S EXCEPT !.users = AddUserForChannel(@, user)]

RECURSIVE AddListed(_, _, _)
AddListed(S, parts, i) ==
    IF i > Len(parts) THEN S
    ELSE AddListed(AddUser(S, User(parts[i], <<>>, <<>>, parts[5])),
                   parts, i + 1)

getUsersFrom353(S, msg) ==
    LET parts == Split(msg, SP)
    IN  IF Len(parts) < 5 THEN S ELSE AddListed(S, parts, 6)

getUsersFrom352(S, msg) ==
    LET parts == Split(msg, SP)
    IN  IF Len(parts) < 9 THEN S
        ELSE AddUser(S, User(parts[8], parts[6], parts[7], parts[4]))

Step353(S, msg) ==
    IF S.status # "running" THEN S
    ELSE IF MessageCode(msg) = Code353
    THEN getUsersFrom353(Dispatch(S, "roster"), msg)
    ELSE S

Step352(S, msg) ==
    IF S.status # "running" THEN S
    ELSE IF MessageCode(msg) = Code352
    THEN getUsersFrom352(Dispatch(S, "who"), msg)
    ELSE S

\* time.Since(lastWho) > 30*time.Second, written on the loop's own conn
StepWho(S, channel, t) ==
    IF S.status # "running" THEN S
    ELSE IF t - S.lastWho > WhoInterval
    THEN [S EXCEPT !.sent = Append(@, WhoFrame(channel)), !.lastWho = t]
    ELSE S

getUserFromNewJoin(S, msg) ==
    LET parts == Split(msg, SP)
    IN  IF Len(parts) < 3 THEN Panic(S)
        ELSE AddUser(S, User(Split(parts[1], BANG)[1], <<>>, <<>>,
                             Trim(parts[3], {":"})))

removeNick(S, msg) ==
    LET parts == Split(msg, SP)
    IN  [S EXCEPT !.users = RemoveUser(@, Split(parts[1], BANG)[1])]

StepJoin(S, msg) ==
    IF S.status # "running" THEN S
    ELSE IF Contains(msg, SP \o sJOIN \o SP)
    THEN getUserFromNewJoin(Dispatch(S, "joined"), msg)
    ELSE S

StepPart(S, msg) ==
    IF S.status # "running" THEN S
    ELSE IF Contains(msg, SP \o sPART \o SP)
    THEN removeNick(Dispatch(S, "parted"), msg)
    ELSE S

\* The body of the for loop, after a successful ReadString.
Iteration(S, c, channel, t, msg) ==
    LET s1 == LogRaw(S, msg)
        s2 == StepWelcome(s1, c, channel, msg)
        s3 == StepPing(s2, c, msg)
        s4 == StepPrivmsg(s3, channel, msg)
        s5 == Step353(s4, msg)
        s6 == Step352(s5, msg)
        s7 == StepWho(s6, channel, t)
        s8 == StepJoin(s7, msg)
    IN  StepPart(s8, msg)

-----------------------------------------------------------------------------
(* The lines the server may send, each as ReadString('\n') delivers it *)

MaxLines == 2
MaxOps == 3
MaxLog == 3
MaxNow == 31
MaxConcLog == 2
MaxWait == 62

Nicks == {<<"a">>, <<"b">>}
Terminators == {<<LF>>, CRLF}
Texts == {<<"h", "i">>, <<>>}
TickSteps == {15, 16}

\* The decorated nickname lists of a 353 reply.
NameLists == {<<"@", "b", " ", "a">>, <<"+", "a">>}

Prefix(n) == COLON \o n \o <<"!", "u", "@", "h">>
ServerPrefix == <<":", "s">>
Me == envVarNickName

JoinLine(n, c, t) == Prefix(n) \o SP \o sJOIN \o SP \o COLON \o c \o t
PartLine(n, c, t) == Prefix(n) \o SP \o sPART \o SP \o COLON \o c \o t
NamesLine(c, l, t) ==
    ServerPrefix \o SP \o Code353 \o SP \o Me \o SP \o <<"=">> \o SP \o c
        \o SP \o COLON \o l \o t
WhoLine(c, n, t) ==
    ServerPrefix \o SP \o Code352 \o SP \o Me \o SP \o c
        \o <<" ", "u", " ", "h", " ", "s", " ">> \o n
        \o <<" ", "H", " ", ":", "0", " ", "r">> \o t
WelcomeLine(t) ==
    ServerPrefix \o SP \o Code001 \o SP \o Me \o <<" ", ":", "h", "i">> \o t
PingPayload == <<":", "s">>
PingLine(t) == sPING \o SP \o PingPayload \o t
PrivmsgLine(n, c, text, t) ==
    Prefix(n) \o SP \o sPRIVMSG \o SP \o c \o SP \o COLON \o text \o t
TopicLine(t) ==
    ServerPrefix \o <<" ", "3", "3", "2", " ">> \o Me \o <<" ", ":", "h", "i">> \o t

JoinLines == {JoinLine(n, c, t) : n \in Nicks, c \in Chans, t \in Terminators}
PartLines == {PartLine(n, <<"#", "x">>, t) : n \in Nicks, t \in Terminators}
NamesLines ==
    {NamesLine(c, l, CRLF) : c \in Chans, l \in NameLists}
        \cup {NamesLine(<<"#", "x">>, l, <<LF>>) : l \in NameLists}
WhoLines == {WhoLine(c, <<"b">>, CRLF) : c \in Chans}
PingLines == {PingLine(t) : t \in Terminators}
PrivmsgLines ==
    {PrivmsgLine(<<"a">>, c, <<"h", "i">>, CRLF) : c \in Chans}
        \cup {PrivmsgLine(<<"a">>, <<"#", "x">>,
                          <<"h", "i", " ", "J", "O", "I", "N", " ", "x">>, CRLF)}
\* No space at all, a bare PING, and a line of three characters.
MalformedLines == {<<"x", LF>>, sPING \o CRLF, <<"a", " ", LF>>}

Lines ==
    JoinLines \cup PartLines \cup NamesLines \cup WhoLines \cup PingLines
        \cup PrivmsgLines \cup MalformedLines
        \cup {WelcomeLine(CRLF), TopicLine(CRLF)}

\* The lines of the whole-program specification.
StartLines ==
    {WelcomeLine(CRLF), PingLine(CRLF), TopicLine(CRLF),
     JoinLine(<<"a">>, <<"#", "x">>, CRLF),
     NamesLine(<<"#", "x">>, <<"+", "a">>, <<LF>>)}

-----------------------------------------------------------------------------
(* States *)

Threads == {1, 2, 3}

\* A goroutine outside every method: the method it runs, its argument, and
\* the locals of a range loop (what was visited, the index, the length, the
\* lines collected); seen keeps what the store held when the lock was taken.
Idle == [name |-> "none", arg |-> <<>>, seen |-> <<>>, todo |-> {}, i |-> 0,
         n |-> 0, acc |-> <<>>]

NoResp == [kind |-> "none", body |-> <<>>]
Page(body) == [kind |-> "page", body |-> body]

\* The process as it starts: package-level variables initialised, main not
\* yet run.
Boot ==
    /\ cfgChannel \in Chans
    /\ envSet \in BOOLEAN
    /\ messages = <<>>
    /\ users = NilUsers
    /\ conn = "nil"
    /\ dialConn = "nil"
    /\ sent = <<>>
    /\ mainPc = "connect"
    /\ loopOn = FALSE
    /\ status = "running"
    /\ message = <<>>
    /\ nRead = 0
    /\ events = <<>>
    /\ now = 0
    /\ lastWho = -1
    /\ resp = NoResp
    /\ hist = <<>>
    /\ pc = [t \in Threads |-> "idle"]
    /\ op = [t \in Threads |-> Idle]
    /\ messagesMutex = 0
    /\ usersMutex = 0

\* The process once main serves, after a successful dial; the start has
\* taken no time, or the whole refresh interval.
Serving ==
    /\ cfgChannel \in Chans
    /\ envSet = TRUE
    /\ messages = <<>>
    /\ users = MadeUsers
    /\ conn = "open"
    /\ dialConn = "open"
    /\ sent = <<UserFrame, NickFrame>>
    /\ mainPc = "serve"
    /\ loopOn = TRUE
    /\ status = "running"
    /\ message = <<>>
    /\ nRead = 0
    /\ events = <<>>
    /\ now \in {0, WhoInterval}
    /\ lastWho = -1
    /\ resp = NoResp
    /\ hist = <<>>
    /\ pc = [t \in Threads |-> "idle"]
    /\ op = [t \in Threads |-> Idle]
    /\ messagesMutex = 0
    /\ usersMutex = 0

threadVars == <<pc, op, messagesMutex, usersMutex>>
mainVars == <<cfgChannel, envSet, conn, dialConn, mainPc, loopOn>>
loopVars == <<message, nRead, events>>

-----------------------------------------------------------------------------
(* main and connectToIRC *)

\* connectToIRC: the environment check, the dial, the registration frames
\* and the start of the read loop.
MainConnect ==
    /\ mainPc = "connect"
    /\ status = "running"
    /\ IF ~envSet
       THEN /\ status' = "fatal"
            /\ mainPc' = "exited"
            /\ UNCHANGED <<dialConn, sent, loopOn>>
       ELSE \E ok \in BOOLEAN :
               /\ dialConn' = IF ok THEN "open" ELSE "nil"
               /\ sent' = IF ok THEN <<UserFrame, NickFrame>> ELSE sent
               /\ loopOn' = ok
               /\ mainPc' = "assignConn"
               /\ status' = status
    /\ UNCHANGED <<cfgChannel, envSet, messages, users, conn, now, lastWho,
                   resp, hist>>
    /\ UNCHANGED loopVars
    /\ UNCHANGED threadVars

\* irc.conn = connectToIRC(irc)
MainAssignConn ==
    /\ mainPc = "assignConn"
    /\ status = "running"
    /\ conn' = dialConn
    /\ mainPc' = "makeUsers"
    /\ UNCHANGED <<cfgChannel, envSet, messages, users, dialConn, sent, loopOn,
                   status, now, lastWho, resp, hist>>
    /\ UNCHANGED loopVars
    /\ UNCHANGED threadVars

\* irc.users = make(map[string]*User)
MainMakeUsers ==
    /\ mainPc = "makeUsers"
    /\ status = "running"
    /\ users' = MadeUsers
    /\ mainPc' = "listen"
    /\ UNCHANGED <<cfgChannel, envSet, messages, conn, dialConn, sent, loopOn,
                   status, now, lastWho, resp, hist>>
    /\ UNCHANGED loopVars
    /\ UNCHANGED threadVars

\* http.ListenAndServe: from here the handlers run.
MainServe ==
    /\ mainPc = "listen"
    /\ status = "running"
    /\ mainPc' = "serve"
    /\ UNCHANGED <<cfgChannel, envSet, messages, users, conn, dialConn, sent,
                   loopOn, status, now, lastWho, resp, hist>>
    /\ UNCHANGED loopVars
    /\ UNCHANGED threadVars

-----------------------------------------------------------------------------
(* The read loop *)

LoopState ==
    [messages |-> messages, users |-> users, sent |-> sent,
     lastWho |-> lastWho, status |-> status, events |-> <<>>]

\* One iteration: ReadString returns line, and the loop body runs on it.
ReadLine(line) ==
    /\ loopOn
    /\ status = "running"
    /\ nRead < MaxLines
    /\ LET S == Iteration(LoopState, conn, cfgChannel, now, line)
       IN  /\ messages' = S.messages
           /\ users' = S.users
           /\ sent' = S.sent
           /\ lastWho' = S.lastWho
           /\ status' = S.status
           /\ events' = S.events
    /\ message' = line
    /\ nRead' = nRead + 1
    /\ UNCHANGED <<now, resp, hist>>
    /\ UNCHANGED mainVars
    /\ UNCHANGED threadVars

\* ReadString fails: log.Fatalf ends the process.
ReadError ==
    /\ loopOn
    /\ status = "running"
    /\ status' = "fatal"
    /\ UNCHANGED <<messages, users, sent, now, lastWho, resp, hist>>
    /\ UNCHANGED mainVars
    /\ UNCHANGED loopVars
    /\ UNCHANGED threadVars

Tick(d) ==
    /\ status = "running"
    /\ now + d <= MaxNow
    /\ now' = now + d
    /\ UNCHANGED <<messages, users, sent, status, lastWho, resp, hist>>
    /\ UNCHANGED mainVars
    /\ UNCHANGED loopVars
    /\ UNCHANGED threadVars

-----------------------------------------------------------------------------
(* The request handlers, and the store methods called on their own *)

Redirect == [kind |-> "redirect", body |-> <<>>]
HandlerPanic == [kind |-> "panic", body |-> <<>>]

\* IRC.SendMessage followed by the handler's redirect.  A write on a nil
\* connection panics after the append; net/http recovers the panic of a
\* handler and the process goes on.
handlerSendMessage(parseOk, text) ==
    /\ mainPc = "serve"
    /\ status = "running"
    /\ Len(messages) < MaxLog
    /\ IF ~parseOk
       THEN /\ resp' = Redirect
            /\ UNCHANGED <<messages, sent, hist>>
       ELSE /\ messages' = Append(messages,
                                  IRCMessage(cfgChannel, envVarNickName, text))
            /\ hist' = Append(hist, IRCMessage(cfgChannel, envVarNickName, text))
            /\ IF conn = "nil"
               THEN resp' = HandlerPanic /\ sent' = sent
               ELSE /\ resp' = Redirect
                    /\ sent' = Append(sent, PrivmsgFrame(cfgChannel, text))
    /\ UNCHANGED <<users, status, now, lastWho>>
    /\ UNCHANGED mainVars
    /\ UNCHANGED loopVars
    /\ UNCHANGED threadVars

handlerGetMessagesForChannel ==
    /\ mainPc = "serve"
    /\ status = "running"
    /\ resp' = Page(GetMessagesForChatRoom(messages, cfgChannel))
    /\ UNCHANGED <<messages, users, sent, status, now, lastWho, hist>>
    /\ UNCHANGED mainVars
    /\ UNCHANGED loopVars
    /\ UNCHANGED threadVars

handlerGetUsersForChannel ==
    /\ mainPc = "serve"
    /\ status = "running"
    /\ resp' = Page(GetUsersForChannel(users, cfgChannel))
    /\ UNCHANGED <<messages, users, sent, status, now, lastWho, hist>>
    /\ UNCHANGED mainVars
    /\ UNCHANGED loopVars
    /\ UNCHANGED threadVars

\* The nicknames and hostnames a caller may pass, decorated or not.
RawNicks == {<<"a">>, <<"@", "a">>, <<"b">>}
RawHosts == {<<>>, <<"@", "h">>}
\* The callers give a server with a hostname (a 352 reply) or neither (a
\* 353 fragment, a JOIN).
ServerOf(h) == IF h = <<>> THEN <<>> ELSE <<"s">>

StoreCall(name, nick, channel) ==
    [name |-> name, nick |-> nick, channel |-> channel]

\* The call of an upsert, with the record it was given.
UpsertCall(user) ==
    [name |-> "add", nick |-> user.Nickname, channel |-> user.Channel,
     user |-> user]

\* irc.AddUserForChannel(&User{...}) called on its own.
CallAddUserForChannel(n, h, s, c) ==
    /\ status = "running"
    /\ Len(hist) < MaxOps
    /\ IF AddUserPanics(users)
       THEN status' = "panic" /\ users' = users
       ELSE /\ users' = AddUserForChannel(users, User(n, h, s, c))
            /\ status' = status
    /\ hist' = Append(hist, UpsertCall(User(n, h, s, c)))
    /\ UNCHANGED <<messages, sent, now, lastWho, resp>>
    /\ UNCHANGED mainVars
    /\ UNCHANGED loopVars
    /\ UNCHANGED threadVars

\* irc.RemoveUser(nickname) called on its own.
CallRemoveUser(n) ==
    /\ status = "running"
    /\ Len(hist) < MaxOps
    /\ users' = RemoveUser(users, n)
    /\ hist' = Append(hist, StoreCall("remove", n, <<>>))
    /\ UNCHANGED <<messages, sent, status, now, lastWho, resp>>
    /\ UNCHANGED mainVars
    /\ UNCHANGED loopVars
    /\ UNCHANGED threadVars

\* irc.ResetUsersForChannel() called on its own.
CallResetUsersForChannel ==
    /\ status = "running"
    /\ Len(hist) < MaxOps
    /\ users' = ResetUsersForChannel(users)
    /\ hist' = Append(hist, StoreCall("reset", <<>>, <<>>))
    /\ UNCHANGED <<messages, sent, status, now, lastWho, resp>>
    /\ UNCHANGED mainVars
    /\ UNCHANGED loopVars
    /\ UNCHANGED threadVars

\* irc.AddIncomingMessage(chatRoom, userName, message) called on its own.
CallAddIncomingMessage(c, u, m) ==
    /\ status = "running"
    /\ Len(messages) < MaxLog
    /\ messages' = AddIncomingMessage(messages, c, u, m)
    /\ hist' = Append(hist, IRCMessage(c, u, m))
    /\ UNCHANGED <<users, sent, status, now, lastWho, resp>>
    /\ UNCHANGED mainVars
    /\ UNCHANGED loopVars
    /\ UNCHANGED threadVars

\* irc.SendMessage(chatRoom, message) called on its own: the append under
\* chatRoom, then sendMessage on irc.conn for irc.config.Channel.
CallSendMessage(c, m) ==
    /\ status = "running"
    /\ Len(messages) < MaxLog
    /\ messages' = Append(messages, IRCMessage(c, envVarNickName, m))
    /\ hist' = Append(hist, IRCMessage(c, envVarNickName, m))
    /\ IF conn = "nil"
       THEN status' = "panic" /\ sent' = sent
       ELSE /\ status' = status
            /\ sent' = Append(sent, PrivmsgFrame(cfgChannel, m))
    /\ UNCHANGED <<users, now, lastWho, resp>>
    /\ UNCHANGED mainVars
    /\ UNCHANGED loopVars
    /\ UNCHANGED threadVars

-----------------------------------------------------------------------------
(* The Roster Store alone, and the Message Log alone *)

NextRoster ==
    \/ \E n \in RawNicks, h \in RawHosts, c \in Chans :
          CallAddUserForChannel(n, h, ServerOf(h), c)
    \/ \E n \in RawNicks : CallRemoveUser(n)
    \/ handlerGetUsersForChannel

\* The store calls start from the serving state, at the start of the clock.
InitStore == Serving /\ now = 0

SpecRoster == InitStore /\ [][NextRoster]_vars

\* The roster with ResetUsersForChannel, which the program itself never
\* calls (the call in the read loop is commented out).
NextReset ==
    \/ NextRoster
    \/ CallResetUsersForChannel

SpecReset == InitStore /\ [][NextReset]_vars

NextLog ==
    \/ \E c \in Chans \cup {<<>>}, u \in Nicks, m \in Texts :
          CallAddIncomingMessage(c, u, m)
    \/ \E ok \in BOOLEAN, m \in Texts : handlerSendMessage(ok, m)
    \/ \E c \in Chans, m \in Texts : CallSendMessage(c, m)
    \/ handlerGetMessagesForChannel

SpecLog == InitStore /\ [][NextLog]_vars

-----------------------------------------------------------------------------
(* The read loop alone, from the serving state *)

NextLoop ==
    \/ \E line \in Lines : ReadLine(line)
    \/ ReadError

InitLoop == Serving /\ cfgChannel = <<"#", "x">>

SpecLoop == InitLoop /\ [][NextLoop]_vars

-----------------------------------------------------------------------------
(* The read loop and the clock: the WHO housekeeping *)

\* ReadString blocks for d time units before the next line arrives.
Wait(d) ==
    /\ loopOn
    /\ status = "running"
    /\ now + d <= MaxWait
    /\ now' = now + d
    /\ UNCHANGED <<messages, users, sent, status, lastWho, resp, hist>>
    /\ UNCHANGED mainVars
    /\ UNCHANGED loopVars
    /\ UNCHANGED threadVars

\* A line that matches no pattern, a probe, a who reply and a line without
\* a space.
WhoRunLines ==
    {TopicLine(CRLF), PingLine(CRLF), WhoLine(<<"#", "x">>, <<"b">>, CRLF),
     <<"x", LF>>}

NextWho ==
    \/ \E line \in WhoRunLines : ReadLine(line)
    \/ \E d \in TickSteps : Wait(d)
    \/ ReadError

SpecWho == InitLoop /\ [][NextWho]_vars

-----------------------------------------------------------------------------
(* The whole program: main, the read loop and the request handlers *)

Next ==
    \/ MainConnect
    \/ MainAssignConn
    \/ MainMakeUsers
    \/ MainServe
    \/ \E line \in StartLines : ReadLine(line)
    \/ ReadError
    \/ \E d \in TickSteps : Tick(d)
    \/ \E ok \in BOOLEAN, m \in Texts : handlerSendMessage(ok, m)
    \/ handlerGetMessagesForChannel
    \/ handlerGetUsersForChannel

Spec == Boot /\ [][Next]_vars

-----------------------------------------------------------------------------
(* The methods of IRC step by step, run by concurrent goroutines: the call, *)
(* the Lock, the accesses to the field, the transport write of SendMessage  *)
(* and the deferred Unlock.                                                 *)

Methods ==
    {"AddIncomingMessage", "SendMessage", "GetMessagesForChatRoom",
     "GetUsersForChannel", "RemoveUser", "AddUserForChannel"}

\* sort.Strings on a slice.
RECURSIVE SortStrings(_)
SortStrings(q) ==
    IF q = <<>> THEN <<>>
    ELSE LET i == CHOOSE i \in 1..Len(q) : \A j \in 1..Len(q) : StrLeq(q[i], q[j])
         IN  <<q[i]>> \o SortStrings(SubSeq(q, 1, i - 1) \o SubSeq(q, i + 1, Len(q)))

\* A method that takes the lock of the other store.
LockOfSwapped(name) ==
    IF name = "GetUsersForChannel" THEN "messages"
    ELSE IF name = "GetMessagesForChatRoom" THEN "users"
    ELSE IF name \in {"AddIncomingMessage", "SendMessage"} THEN "messages"
    ELSE "users"

\* The mutex the method locks on entry and unlocks, deferred, on return.
LockOf(name) ==
    IF name \in {"AddIncomingMessage", "SendMessage", "GetMessagesForChatRoom"}
    THEN "messages"
    ELSE "users"

\* The appends that have been called and not yet made.
PendingAppends ==
    Cardinality({t \in Threads :
                    /\ op[t].name \in {"AddIncomingMessage", "SendMessage"}
                    /\ pc[t] \in {"lock", "body"}})

storeVars == <<cfgChannel, envSet, conn, dialConn, mainPc, loopOn, message,
               nRead, events, now, lastWho, resp, hist>>

Call(t, name, arg) ==
    /\ status = "running"
    /\ pc[t] = "idle"
    /\ name \in {"AddIncomingMessage", "SendMessage"}
          => Len(messages) + PendingAppends < MaxConcLog
    /\ op' = [op EXCEPT ![t] = [Idle EXCEPT !.name = name, !.arg = arg]]
    /\ pc' = [pc EXCEPT ![t] = "lock"]
    /\ UNCHANGED <<messages, users, sent, status, messagesMutex, usersMutex>>
    /\ UNCHANGED storeVars

\* mutex.Lock(): waits until the mutex is free.  A reader starts its range
\* loop over what it finds.
Lock(t) ==
    /\ status = "running"
    /\ pc[t] = "lock"
    /\ IF LockOf(op[t].name) = "messages"
       THEN /\ messagesMutex = 0
            /\ messagesMutex' = t
            /\ usersMutex' = usersMutex
       ELSE /\ usersMutex = 0
            /\ usersMutex' = t
            /\ messagesMutex' = messagesMutex
    /\ op' = [op EXCEPT ![t] =
                [@ EXCEPT !.seen = IF op[t].name = "GetUsersForChannel" THEN users
                                  ELSE IF op[t].name = "GetMessagesForChatRoom"
                                  THEN messages ELSE <<>>,
                          !.n = Len(messages)]]
    /\ pc' = [pc EXCEPT ![t] = "body"]
    /\ UNCHANGED <<messages, users, sent, status>>
    /\ UNCHANGED storeVars

\* The append of AddIncomingMessage and of SendMessage; SendMessage goes on
\* to sendMessage(irc.conn, ...).
AppendStep(t) ==
    /\ status = "running"
    /\ pc[t] = "body"
    /\ op[t].name \in {"AddIncomingMessage", "SendMessage"}
    /\ messages' = AddIncomingMessage(messages, op[t].arg.channel,
                                      op[t].arg.userName, op[t].arg.message)
    /\ pc' = [pc EXCEPT ![t] = IF op[t].name = "SendMessage" THEN "write"
                               ELSE "unlock"]
    /\ UNCHANGED <<users, sent, status, op, messagesMutex, usersMutex>>
    /\ UNCHANGED storeVars

\* fmt.Fprintf(conn, "PRIVMSG %s :%s\r\n", ...): returns when the transport
\* has taken the frame.
WriteStep(t) ==
    /\ status = "running"
    /\ pc[t] = "write"
    /\ sent' = Append(sent, PrivmsgFrame(cfgChannel, op[t].arg.message))
    /\ pc' = [pc EXCEPT ![t] = "unlock"]
    /\ UNCHANGED <<messages, users, status, op, messagesMutex, usersMutex>>
    /\ UNCHANGED storeVars

\* irc.users[user.Nickname] = user, and delete(irc.users, nickname)
RosterStep(t) ==
    /\ status = "running"
    /\ pc[t] = "body"
    /\ op[t].name \in {"AddUserForChannel", "RemoveUser"}
    /\ IF op[t].name = "RemoveUser"
       THEN users' = RemoveUser(users, op[t].arg) /\ status' = status
       ELSE IF AddUserPanics(users)
       THEN users' = users /\ status' = "panic"
       ELSE users' = AddUserForChannel(users, op[t].arg) /\ status' = status
    /\ pc' = [pc EXCEPT ![t] = "unlock"]
    /\ UNCHANGED <<messages, sent, op, messagesMutex, usersMutex>>
    /\ UNCHANGED storeVars

\* One turn of 'for _, u := range irc.users', in the map's own order; after
\* the last, the sort and the join.
ScanUsers(t) ==
    /\ status = "running"
    /\ pc[t] = "body"
    /\ op[t].name = "GetUsersForChannel"
    /\ LET left == (DOMAIN users.m) \ op[t].todo
       IN  IF left = {}
           THEN /\ op' = [op EXCEPT ![t].acc =
                            StringsJoin(SortStrings(op[t].acc), COMMA)]
                /\ pc' = [pc EXCEPT ![t] = "unlock"]
           ELSE \E k \in left :
                   /\ op' = [op EXCEPT ![t].todo = @ \cup {k},
                                       ![t].acc =
                                          IF users.m[k].Channel = cfgChannel
                                          THEN Append(@, users.m[k].Nickname)
                                          ELSE @]
                   /\ pc' = pc
    /\ UNCHANGED <<messages, users, sent, status, messagesMutex, usersMutex>>
    /\ UNCHANGED storeVars

\* One turn of 'for _, m := range irc.messages', over the length the slice
\* had when the loop began; after the last, the join.
ScanMessages(t) ==
    /\ status = "running"
    /\ pc[t] = "body"
    /\ op[t].name = "GetMessagesForChatRoom"
    /\ IF op[t].i >= op[t].n
       THEN /\ op' = [op EXCEPT ![t].acc = StringsJoin(op[t].acc, BR)]
            /\ pc' = [pc EXCEPT ![t] = "unlock"]
       ELSE /\ op' = [op EXCEPT ![t].i = @ + 1,
                                ![t].acc =
                                   IF messages[op[t].i + 1].channel = cfgChannel
                                   THEN Append(@, FormatMessage(messages[op[t].i + 1]))
                                   ELSE @]
            /\ pc' = pc
    /\ UNCHANGED <<messages, users, sent, status, messagesMutex, usersMutex>>
    /\ UNCHANGED storeVars

\* The deferred Unlock, and the return.
Unlock(t) ==
    /\ status = "running"
    /\ pc[t] = "unlock"
    /\ IF LockOf(op[t].name) = "messages"
       THEN messagesMutex' = 0 /\ usersMutex' = usersMutex
       ELSE usersMutex' = 0 /\ messagesMutex' = messagesMutex
    /\ op' = [op EXCEPT ![t] = Idle]
    /\ pc' = [pc EXCEPT ![t] = "idle"]
    /\ UNCHANGED <<messages, users, sent, status>>
    /\ UNCHANGED storeVars

\* The calls the goroutines make: the read loop's and the handlers'.
Calls ==
    {<<"AddIncomingMessage", IRCMessage(<<"#", "x">>, <<"a">>, <<"h", "i">>)>>,
     <<"SendMessage", IRCMessage(<<"#", "x">>, envVarNickName, <<"h", "i">>)>>,
     <<"GetMessagesForChatRoom", <<>>>>,
     <<"GetUsersForChannel", <<>>>>,
     <<"RemoveUser", <<"a">>>>}
        \cup {<<"AddUserForChannel", User(n, <<>>, <<>>, <<"#", "x">>)>> : n \in Nicks}

NextConc ==
    \E t \in Threads :
        \/ \E c \in Calls : Call(t, c[1], c[2])
        \/ Lock(t)
        \/ AppendStep(t)
        \/ WriteStep(t)
        \/ RosterStep(t)
        \/ ScanUsers(t)
        \/ ScanMessages(t)
        \/ Unlock(t)

InitConc ==
    /\ Serving
    /\ now = 0
    /\ cfgChannel = <<"#", "x">>

SpecConc == InitConc /\ [][NextConc]_vars

-----------------------------------------------------------------------------
(* Claims about the read loop *)

\* The set of the elements of a sequence.
Range(q) == {q[i] : i \in 1..Len(q)}

\* The roster the facade shows: the nicknames of the configured channel.
Snapshot == Range(GetUsersList(users, cfgChannel))

\* The step just taken was an iteration of the read loop.
ReadStep == nRead' = nRead + 1

\* The frames the step wrote.
Written == SubSeq(sent', Len(sent) + 1, Len(sent'))

\* C2: after the loop processes ':n!user@host JOIN :c' the roster snapshot
\* of c contains n, and after ':n!user@host PART :c' it does not.
C2_JoinThenPart ==
    \A n \in Nicks, t \in Terminators :
        /\ (nRead > 0 /\ message = JoinLine(n, cfgChannel, t)) => n \in Snapshot
        /\ (nRead > 0 /\ message = PartLine(n, cfgChannel, t)) => n \notin Snapshot

\* The bare nicknames a decorated 353 list names.
BareNames(l) ==
    CASE l = <<"@", "b", " ", "a">> -> {<<"a">>, <<"b">>}
      [] l = <<"+", "a">> -> {<<"a">>}

\* C3: processing ':srv 353 me = c :n1 .. nk' makes the roster snapshot of c
\* hold exactly the bare nicknames n1..nk in addition to what it held.
C3_NamesReply ==
    [][\A l \in NameLists, t \in Terminators :
          (ReadStep /\ message' = NamesLine(cfgChannel, l, t))
              => Range(GetUsersList(users', cfgChannel'))
                    = Snapshot \cup BareNames(l)]_vars

\* A line that matches none of the decoder's patterns.
Unmatched(msg) ==
    LET toks == SplitN(msg, SP, 3)
    IN  /\ ~(Len(msg) >= 4 /\ SubSeq(msg, 1, 4) = sPING)
        /\ (Len(toks) < 2 \/ toks[2] \notin {Code001, Code353, Code352})
        /\ ~Contains(msg, SP \o sJOIN \o SP)
        /\ ~Contains(msg, SP \o sPART \o SP)
        /\ ~Contains(msg, sPRIVMSG \o SP \o cfgChannel)

\* C5 as stated: a line matching no pattern dispatches no event and leaves
\* both the roster and the message log as they were (stated of the
\* iterations that run to their end).
C5_UnmatchedLeavesAll ==
    [][(ReadStep /\ Unmatched(message') /\ status' = "running")
          => (events' = <<>> /\ users' = users /\ messages' = messages)]_vars

\* C5 amended: a line matching no pattern dispatches no event and leaves the
\* roster as it was; the message log gains the raw line, with empty channel
\* and author, and nothing else.
C5_UnmatchedLogsRawOnly ==
    [][(ReadStep /\ Unmatched(message'))
          => /\ events' = <<>>
             /\ users' = users
             /\ messages' = Append(messages, IRCMessage(<<>>, <<>>, message'))]_vars

\* An unmatched line has been read and the loop goes on.
C5_Witness ==
    /\ nRead = 2
    /\ message = TopicLine(CRLF)
    /\ status = "running"
    /\ users.m # EmptyMap
    /\ messages[Len(messages)] = IRCMessage(<<>>, <<>>, TopicLine(CRLF))

IsPong(f) == Len(f) >= 4 /\ SubSeq(f, 1, 4) = sPONG

\* C6: a line 'PING <payload>' makes the loop write exactly one PONG frame,
\* which carries the payload and nothing else before its line terminator.
C6_PongEchoesPayload ==
    [][\A t \in Terminators :
          (ReadStep /\ message' = PingLine(t))
              => SelectSeq(Written, IsPong) = <<sPONG \o SP \o PingPayload \o CRLF>>]_vars

\* C9: no line, malformed ones included, makes the loop fail.
C9_NeverAborts == status # "panic"

-----------------------------------------------------------------------------
(* Claims about the Roster Store and the Message Log *)

\* The last call in h that names nickname n (decorations aside) upserted it
\* into channel c.
UpsertedInto(h, n, c) ==
    \E i \in 1..Len(h) :
        /\ h[i].name = "add"
        /\ Trim(h[i].nick, NickCutset) = n
        /\ h[i].channel = c
        /\ \A j \in (i + 1)..Len(h) : Trim(h[j].nick, NickCutset) # n

\* C1: after any sequence of upserts and removes, the roster query returns
\* only nicknames whose most recent upsert was into the queried channel and
\* that were not removed since, in ascending order without duplicates.
C1_RosterSnapshot ==
    LET list == GetUsersList(users, cfgChannel)
    IN  /\ \A i \in 1..Len(list) : UpsertedInto(hist, list[i], cfgChannel)
        /\ \A i, j \in 1..Len(list) : i < j => StrLess(list[i], list[j])

\* A nickname first upserted into the other channel, then into the queried
\* one, beside a second member.
C1_Witness ==
    /\ Len(hist) = 3
    /\ hist[1].name = "add"
    /\ hist[1].channel # cfgChannel
    /\ GetUsersList(users, cfgChannel) = <<<<"a">>, <<"b">>>>
    /\ resp = Page(<<"a", ",", "b">>)

\* The rendering of channel c that the appends h call for, built from the
\* last line back.
RECURSIVE Rendered(_, _)
Rendered(h, c) ==
    IF h = <<>> THEN <<>>
    ELSE LET before == Rendered(SubSeq(h, 1, Len(h) - 1), c)
             last == h[Len(h)]
             line == last.userName \o <<":", " ">> \o last.message
         IN  IF last.channel # c THEN before
             ELSE IF before = <<>> THEN line
             ELSE before \o <<"<", "b", "r", "/", ">">> \o line

\* C4: rendering a channel returns exactly the lines appended with that
\* channel, each as 'author: text', in the order of the appends, joined
\* with '<br/>'.
C4_RenderInOrder ==
    \A c \in Chans \cup {<<>>} :
        GetMessagesForChatRoom(messages, c) = Rendered(hist, c)

\* Two lines of the configured channel with a line of another in between.
C4_Witness ==
    /\ Len(hist) = 3
    /\ hist[1].channel = cfgChannel
    /\ hist[2].channel # cfgChannel
    /\ hist[3].channel = cfgChannel
    /\ hist[1] # hist[3]
    /\ resp = Page(GetMessagesForChatRoom(messages, cfgChannel))

-----------------------------------------------------------------------------
(* Claims about the start of the process *)

\* C10: when the dial fails the process ends at once: main never serves
\* requests, and no send, history or roster request runs without an
\* established connection.
C10_DialFailureIsFatal ==
    /\ (mainPc \in {"listen", "serve"}) => dialConn = "open"
    /\ resp.kind # "none" => conn = "open"

-----------------------------------------------------------------------------
(* Claims about the locks *)

\* The store each method works on.
StoreOf(name) ==
    IF name \in {"GetUsersForChannel", "RemoveUser", "AddUserForChannel"}
    THEN "roster" ELSE "log"

\* Goroutine t is at an access to the field of the given store.
Inside(t, store) == pc[t] = "body" /\ StoreOf(op[t].name) = store

\* C7: every access to the roster map is made holding the roster lock and
\* every access to the message slice holding the message-log lock, so at
\* most one goroutine is inside a store at a time, and a reader works on
\* the store as it was when it took the lock: its result is the query of
\* that one state.
C7_AccessUnderLock ==
    /\ \A t \in Threads :
          /\ Inside(t, "roster") => usersMutex = t
          /\ Inside(t, "log") => messagesMutex = t
    /\ \A t1, t2 \in Threads, store \in {"roster", "log"} :
          (Inside(t1, store) /\ Inside(t2, store)) => t1 = t2
    /\ \A t \in Threads :
          /\ (op[t].name = "GetUsersForChannel" /\ pc[t] \in {"body", "unlock"})
                => users = op[t].seen
          /\ (op[t].name = "GetMessagesForChatRoom" /\ pc[t] \in {"body", "unlock"})
                => messages = op[t].seen
          /\ (op[t].name = "GetUsersForChannel" /\ pc[t] = "unlock")
                => op[t].acc = GetUsersForChannel(op[t].seen, cfgChannel)
          /\ (op[t].name = "GetMessagesForChatRoom" /\ pc[t] = "unlock")
                => op[t].acc = GetMessagesForChatRoom(op[t].seen, cfgChannel)

\* A roster query in the middle of its loop over two members while an
\* upsert waits for the lock and a render is in the middle of its own loop.
C7_Witness ==
    \E r, w, g \in Threads :
        /\ op[r].name = "GetUsersForChannel"
        /\ pc[r] = "body"
        /\ Cardinality(op[r].todo) = 1
        /\ Cardinality(DOMAIN users.m) = 2
        /\ op[w].name = "AddUserForChannel"
        /\ pc[w] = "lock"
        /\ op[g].name = "GetMessagesForChatRoom"
        /\ pc[g] = "body"
        /\ op[g].i = 1
        /\ Len(messages) = 2

\* C8: SendMessage does not hold the message-log lock while it writes the
\* frame to the transport.
C8_WriteOutsideLock ==
    \A t \in Threads : pc[t] = "write" => messagesMutex # t

-----------------------------------------------------------------------------
(* Claims about sending *)

\* The step just taken was a send of text through the request handler.
Submitted(text) ==
    hist' = Append(hist, IRCMessage(cfgChannel, envVarNickName, text))

\* C11: a send of the empty text is a no-op: the message log is left as it
\* was and no frame is written to the transport.
C11_EmptySendIsNoOp ==
    [][Submitted(<<>>) => (messages' = messages /\ sent' = sent)]_vars

-----------------------------------------------------------------------------
(* Claims about single roster calls *)

\* No call after the i-th of h names the nickname of the i-th, decorations
\* aside.
LastNaming(h, i) ==
    \A j \in (i + 1)..Len(h) :
        Trim(h[j].nick, NickCutset) # Trim(h[i].nick, NickCutset)

\* C12: an upsert is last-write-wins per trimmed nickname, without merging:
\* the roster holds exactly one record under the nickname, and its hostname,
\* server and channel are those of the last record upserted, also when that
\* record carries a nickname and a channel only.
C12_LastWriteWins ==
    \A i \in 1..Len(hist) :
        (hist[i].name = "add" /\ LastNaming(hist, i))
            => LET k == Trim(hist[i].nick, NickCutset)
                   given == hist[i].user
               IN  /\ k \in DOMAIN users.m
                   /\ Cardinality({j \in DOMAIN users.m :
                                      users.m[j].Nickname = k}) = 1
                   /\ users.m[k].Nickname = k
                   /\ users.m[k].Hostname = Trim(given.Hostname, NickCutset)
                   /\ users.m[k].Server = given.Server
                   /\ users.m[k].Channel = given.Channel

\* A record with hostname and server, then a bare record of the same
\* nickname for the other channel.
C12_Witness ==
    /\ Len(hist) = 2
    /\ hist[1] = UpsertCall(User(<<"@", "a">>, <<"@", "h">>, <<"s">>, <<"#", "x">>))
    /\ hist[2] = UpsertCall(User(<<"a">>, <<>>, <<>>, <<"#", "y">>))
    /\ DOMAIN users.m = {<<"a">>}
    /\ users.m[<<"a">>] = User(<<"a">>, <<>>, <<>>, <<"#", "y">>)

\* The step just taken was an upsert of a record into channel c.
UpsertInto(c) ==
    /\ Len(hist') = Len(hist) + 1
    /\ hist'[Len(hist')].name = "add"
    /\ hist'[Len(hist')].channel = c

\* The nickname the upsert just made was for, decorations aside.
Upserted == Trim(hist'[Len(hist')].nick, NickCutset)

\* C20 as stated: nicknames are keys within a channel, not across channels:
\* an upsert of a nickname into one channel leaves the snapshot of every
\* other channel as it was.
C20_OtherChannelUntouched ==
    [][\A a, b \in Chans :
          (UpsertInto(b) /\ a # b)
              => GetUsersList(users', a) = GetUsersList(users, a)]_vars

\* C20 amended: nicknames are keys of the whole roster: an upsert of a
\* nickname into one channel puts it into the snapshot of that channel and
\* takes it out of the snapshot of every other channel, and changes the
\* membership of no other nickname.
C20_NicknameKeyedRoster ==
    [][\A a, b \in Chans :
          UpsertInto(b)
              => Range(GetUsersList(users', a))
                    = IF a = b
                      THEN Range(GetUsersList(users, a)) \cup {Upserted}
                      ELSE Range(GetUsersList(users, a)) \ {Upserted}]_vars

\* Two members of the configured channel, one of them then upserted into
\* the other channel under a decorated nickname.
C20_Witness ==
    /\ Len(hist) = 3
    /\ hist[2] = UpsertCall(User(<<"a">>, <<>>, <<>>, cfgChannel))
    /\ hist[3].name = "add"
    /\ hist[3].nick = <<"@", "a">>
    /\ hist[3].channel # cfgChannel
    /\ GetUsersList(users, cfgChannel) = <<<<"b">>>>
    /\ GetUsersList(users, hist[3].channel) = <<<<"a">>>>

\* C17: after ResetUsersForChannel the roster is empty and still usable:
\* the snapshot of every channel is empty, and an upsert made next succeeds
\* and makes its member appear in the snapshot of its channel.
C17_ClearLeavesUsable ==
    \A i \in 1..Len(hist) :
        hist[i].name = "reset"
            => /\ i = Len(hist)
                    => \A c \in Chans : GetUsersList(users, c) = <<>>
               /\ (i + 1 = Len(hist) /\ hist[i + 1].name = "add")
                    => /\ status = "running"
                       /\ Trim(hist[i + 1].nick, NickCutset)
                             \in Range(GetUsersList(users, hist[i + 1].channel))

-----------------------------------------------------------------------------
(* Claims about the dispatch of the read loop *)

\* C13: a line read from the stream produces no decoded event or one: the
\* iteration makes at most one of the dispatches pong, join-channel, channel
\* message, roster fragment, who reply, member joined, member parted.
C13_AtMostOneEvent == Len(events) <= 1

\* The line is a chat delivery addressed to the configured channel.
IsChannelMessage(msg) ==
    msg \in PrivmsgLines /\ Contains(msg, sPRIVMSG \o SP \o cfgChannel)

\* C19: processing a PRIVMSG addressed to the configured channel leaves the
\* roster as it was, whatever the text of the message.
C19_ChatLeavesRoster ==
    [][(ReadStep /\ IsChannelMessage(message')) => users' = users]_vars

\* The step just taken was a send of text to channel c: the log line of the
\* local nickname is what only a send appends.
Sent(c, text) == hist' = Append(hist, IRCMessage(c, envVarNickName, text))

\* C16: for every channel argument and text, a send writes exactly one
\* PRIVMSG frame, addressed to that channel and carrying the text, and
\* appends exactly one line to the message log, with that channel, the local
\* nickname as author and the text (stated of the texts that are not
\* empty).
C16_SendToGivenChannel ==
    [][\A c \in Chans, m \in Texts \ {<<>>} :
          Sent(c, m)
              => /\ Written = <<PrivmsgFrame(c, m)>>
                 /\ messages' = Append(messages,
                                       IRCMessage(c, envVarNickName, m))]_vars

-----------------------------------------------------------------------------
(* Claims about the session *)

IsJoin(f) == Len(f) >= 4 /\ SubSeq(f, 1, 4) = sJOIN

\* The line decodes as the welcome reply: its second token is 001.
IsWelcome(msg) == ~MessageCodePanics(msg) /\ MessageCode(msg) = Code001

\* C14: the session goes from connecting to registering, joined and
\* reading: USER and then NICK are the first frames written, before any line
\* is read, and a JOIN frame for the configured channel is written exactly
\* once for each welcome (001) line read and for no other line or step.
C14_SessionOrder ==
    [][/\ (loopOn' \/ nRead' > 0)
            => (Len(sent') >= 2 /\ sent'[1] = UserFrame /\ sent'[2] = NickFrame)
       /\ SelectSeq(Written, IsJoin)
            = IF ReadStep /\ IsWelcome(message')
              THEN <<JoinFrame(cfgChannel)>> ELSE <<>>]_vars

IsWho(f) == Len(f) >= 3 /\ SubSeq(f, 1, 3) = sWHO

\* C15: the roster refresh is decided once in every iteration of the read
\* loop, whatever the line: the iteration writes one WHO frame if and only
\* if more than 30 time units have passed since the refresh timestamp, and
\* then sets the timestamp to the current time; so two WHO frames are more
\* than 30 time units apart.
C15_WhoEveryInterval ==
    [][ReadStep
          => LET due == now - lastWho > WhoInterval
             IN  /\ SelectSeq(Written, IsWho)
                      = IF due THEN <<WhoFrame(cfgChannel)>> ELSE <<>>
                 /\ lastWho' = IF due THEN now ELSE lastWho]_vars

\* C18: however the start of the process and the read loop interleave,
\* irc.conn is set when an iteration dispatches a join or a pong, and
\* irc.users is made when an iteration upserts from a 353, a 352 or a JOIN
\* line: the loop never writes on an unset connection nor inserts into a
\* roster that was not made.
C18_InitializedBeforeUse ==
    [][ReadStep
          => /\ (Range(events') \cap {"join", "pong"} # {}) => conn # "nil"
             /\ (Range(events') \cap {"roster", "who", "joined"} # {})
                    => ~users.nil]_vars

=============================================================================
